---- MODULE Spec2Model ----
(***************************************************************************)
(* Model of src/main.py: the Nitter instance switcher, the timeline crawl  *)
(* generator _fetch_tweet_elements, the tweet element parsers, the media   *)
(* download, and the process (__main__, the download directory and main).  *)
(*                                                                         *)
(* Python strings are modelled as sequences of tokens: '' is << >>, and    *)
(* a + b is a \o b.  A hostname is a one-token string, an instance url is  *)
(* <<"https://", host>>.                                                   *)
(***************************************************************************)
EXTENDS Integers, Sequences, FiniteSets, TLC

VARIABLES
    bad_instances,      \* NitterInstanceSwitcher.bad_instances (class attribute)
    switches,           \* NitterInstanceSwitcher.switches
    current_instance,   \* NitterInstanceSwitcher.current_instance
    us_instances_only,  \* NitterInstanceSwitcher.us_instances_only
    us_instances,       \* NitterInstanceSwitcher._us_instances: {} is None, {l} a list
    one_page_only,      \* module global one_page_only
    source,             \* argument source of _fetch_tweet_elements
    pc,                 \* position of the generator _fetch_tweet_elements
    exc,                \* exception that left the generator, << >> when none
    pagecount,          \* local pagecount
    instance_url,       \* local instance_url
    pages_until_instanceswitch, \* local pages_until_instanceswitch
    cursor,             \* local cursor
    root,               \* the parsed page being iterated (its number), 0 when none
    idx,                \* position of the for loop over tweet_selector(root)
    yielded,            \* the TweetElementWithInstance tuples yielded so far
    parsed,             \* _parse_tweet_element results of the consumer, in order
    serving,            \* history: hostname the last page request was sent to
    symptomatic,        \* history: hostnames that served a bad-mirror symptom
    nrequests,          \* history: number of timeline page requests issued
    answer,             \* history: what the network answered to the last page request
    served,             \* history: per yielded record, the host that served its page
    streak,             \* history: the value of switches at the last page request, and
                        \* the pages parsed successfully since the selection it counts
    requested,          \* history: the cursor of the last page request
    last_attempt,       \* history: the last call of new: was it the first call of the
                        \* process, and did it sleep
    IS_GH_ACTION,       \* module global IS_GH_ACTION
    main_pc,            \* position of the process: __main__ and main
    dirs,               \* the directories that exist in the local file system
    main_i,             \* local i of main
    handled,            \* history: per post main has handled, what its body did
    uploaded,           \* history: the file lists handed to _upload_files_to_mega
    input,              \* parser harness: the element handed to a parser
    output              \* parser harness: what the parser returned

switcher_vars == <<bad_instances, switches, current_instance, us_instances_only, us_instances>>
crawl_vars == <<one_page_only, source, pc, exc, pagecount, instance_url,
                pages_until_instanceswitch, cursor, root, idx, yielded>>
history_vars == <<serving, symptomatic, nrequests, answer, served, streak, requested>>
harness_vars == <<input, output>>
program_vars == <<IS_GH_ACTION, main_pc, dirs, main_i, handled, uploaded>>
vars == <<switcher_vars, crawl_vars, history_vars, last_attempt, parsed, harness_vars,
          program_vars>>

(***************************************************************************)
(* Bounds of the model.                                                    *)
(***************************************************************************)
NPages == 4

(***************************************************************************)
(* Strings.                                                                *)
(***************************************************************************)
EmptyStr == << >>
Https == <<"https://">>

\* str.removeprefix: drop the prefix when the string starts with it
removeprefix(s, prefix) ==
    IF Len(s) >= Len(prefix) /\ SubSeq(s, 1, Len(prefix)) = prefix
    THEN SubSeq(s, Len(prefix) + 1, Len(s))
    ELSE s

(***************************************************************************)
(* The mirrors of the environment.                                         *)
(***************************************************************************)
\* the pre-seeded entries of bad_instances (one stands for the eleven)
PreseededBad == {<<"nitter.domain.glass">>}
\* us_instances_with_age_restriction (one stands for the three)
us_instances_with_age_restriction == {<<"nitter.pw">>}
\* mirrors that are neither pre-seeded nor age restricted
OpenHosts == {<<"m1">>, <<"m2">>, <<"m3">>}
\* every hostname a discovery response can resolve to; << >> is no hostname
HostNames == OpenHosts \cup PreseededBad \cup us_instances_with_age_restriction \cup {EmptyStr}
\* the lists the instance-list page can parse to (findall of the table rows)
InstanceLists == { {}, {<<"m1">>, <<"nitter.pw">>},
                   {<<"m1">>, <<"m2">>, <<"m3">>, <<"nitter.domain.glass">>} }

(***************************************************************************)
(* Python values and exceptions.  A call returns Ret(v) or Raise(e).       *)
(***************************************************************************)
\* None, a value different from every string of the model
PyNone == <<"<None>">>
Ret(v) == [exc |-> EmptyStr, v |-> v]
Raise(e) == [exc |-> <<e>>, v |-> EmptyStr]
Raised(r) == r.exc # EmptyStr

\* element.get(name): the attribute value, None when the attribute is missing;
\* an attribute is {} (missing) or {value}
get(attr) == IF attr = {} THEN PyNone ELSE CHOOSE v \in attr : TRUE

\* a + b on str: TypeError when an operand is None
Add(a, b) == IF a = PyNone \/ b = PyNone THEN Raise("TypeError") ELSE Ret(a \o b)

\* _safe_select: the first element of the list of matches, None ({}) when
\* nothing matches
_safe_select(list_of_elements) ==
    IF Len(list_of_elements) > 0 THEN {list_of_elements[1]} ELSE {}

(***************************************************************************)
(* TWEET_DATE_PATTERN, MONTHS and _parse_tweet_date.                       *)
(* A title is a record of its tokens: month (letters), day, year, hour,    *)
(* minute (digits), ampm, sep (the text between year and hour) and tz (the *)
(* text after ampm).                                                       *)
(***************************************************************************)
MONTHS == << <<"j","a","n">>, <<"f","e","b">>, <<"m","a","r">>, <<"a","p","r">>,
             <<"m","a","y">>, <<"j","u","n">>, <<"j","u","l">>, <<"a","u","g">>,
             <<"s","e","p">>, <<"o","c","t">>, <<"n","o","v">>, <<"d","e","c">> >>

\* str.lower on one character
LowerChar(c) ==
    CASE c = "A" -> "a" [] c = "B" -> "b" [] c = "D" -> "d" [] c = "E" -> "e"
      [] c = "F" -> "f" [] c = "J" -> "j" [] c = "N" -> "n" [] c = "O" -> "o"
      [] c = "P" -> "p" [] c = "S" -> "s" [] c = "U" -> "u" [] c = "V" -> "v"
      [] OTHER -> c
lower(s) == [i \in 1..Len(s) |-> LowerChar(s[i])]

\* int() of a digit string
RECURSIVE int(_)
int(ds) == IF Len(ds) = 0 THEN 0
           ELSE 10 * int(SubSeq(ds, 1, Len(ds) - 1)) + ds[Len(ds)]

\* html.unescape of the separator: a character reference becomes the character
unescape(sep) == IF sep = "&#183;" THEN "MIDDOT" ELSE sep

\* TWEET_DATE_PATTERN.match: \w{3}, \d\d?, \d{4}, [01]?\d, \d\d, AM|PM and the
\* literal parts " MIDDOT " and " UTC" (MIDDOT is U+00B7)
PatternMatches(t) ==
    /\ Len(t.month) = 3
    /\ Len(t.day) \in {1, 2}
    /\ Len(t.year) = 4
    /\ \/ Len(t.hour) = 1
       \/ Len(t.hour) = 2 /\ t.hour[1] \in {0, 1}
    /\ Len(t.minute) = 2
    /\ t.ampm \in {"AM", "PM"}
    /\ unescape(t.sep) = "MIDDOT"
    /\ t.tz = "UTC"

\* MONTHS.index(month) + 1; 0 when month is not in MONTHS
MonthIndex(m) == IF \E i \in 1..Len(MONTHS) : MONTHS[i] = m
                 THEN CHOOSE i \in 1..Len(MONTHS) : MONTHS[i] = m
                 ELSE 0

IsLeap(y) == (y % 4 = 0 /\ y % 100 # 0) \/ y % 400 = 0
DaysInMonth(y, m) == IF m = 2 THEN (IF IsLeap(y) THEN 29 ELSE 28)
                     ELSE IF m \in {4, 6, 9, 11} THEN 30 ELSE 31

\* datetime(year, month, day, hour, minute, tzinfo=utc): ValueError when a
\* field is out of range
datetime(y, m, d, h, mi) ==
    IF /\ y \in 1..9999
       /\ m \in 1..12
       /\ d >= 1 /\ d <= DaysInMonth(y, m)
       /\ h \in 0..23
       /\ mi \in 0..59
    THEN Ret([year |-> y, month |-> m, day |-> d, hour |-> h, minute |-> mi])
    ELSE Raise("ValueError")

\* datetime.fromtimestamp(0, tz=timezone.utc)
fallback_date == [year |-> 1970, month |-> 1, day |-> 1, hour |-> 0, minute |-> 0]

\* the hour after line 398: hour += 12 if ampm == "PM" and hour != 12 else 0
HourOf(hour, ampm) == IF ampm = "PM" /\ hour # 12 THEN hour + 12 ELSE hour

_parse_tweet_date(te) ==
    LET date_link == _safe_select(te.element.date) IN
    IF date_link = {} THEN Ret(fallback_date)
    ELSE LET title == (CHOOSE d \in date_link : TRUE).title IN
         IF title = {} THEN Raise("TypeError")   \* html.unescape(None)
         ELSE LET t == CHOOSE x \in title : TRUE IN
              IF ~PatternMatches(t) THEN Ret(fallback_date)
              ELSE LET hour == HourOf(int(t.hour), t.ampm)
                       month == lower(t.month)
                   IN IF MonthIndex(month) = 0 THEN Ret(fallback_date)
                      ELSE datetime(int(t.year), MonthIndex(month), int(t.day),
                                    hour, int(t.minute))

\* datetime.isoformat() of a UTC datetime without seconds
isoformat(dt) == <<ToString(dt.year), "-", ToString(dt.month), "-", ToString(dt.day), "T",
                   ToString(dt.hour), ":", ToString(dt.minute), ":00+00:00">>

(***************************************************************************)
(* The element parsers.  te is a TweetElementWithInstance                  *)
(* [instance_url, element]; an element is the markup of one timeline item: *)
(* each fragment is the list of the elements its selector matches.        *)
(***************************************************************************)

\* _parse_tweet_link qualifying with the switcher's current instance
_parse_tweet_link_current(te) ==
    LET tweet_link == _safe_select(te.element.tweet_link) IN
    IF tweet_link = {} THEN Ret(EmptyStr)
    ELSE Add(current_instance, get((CHOOSE l \in tweet_link : TRUE).href))

_parse_tweet_link(te) ==
    LET tweet_link == _safe_select(te.element.tweet_link) IN
    IF tweet_link = {} THEN Ret(EmptyStr)
    ELSE Add(te.instance_url, get((CHOOSE l \in tweet_link : TRUE).href))

_parse_tweet_author(te) ==
    LET fullname_link == _safe_select(te.element.fullname) IN
    IF fullname_link = {} THEN Ret(EmptyStr)
    ELSE Ret(get((CHOOSE l \in fullname_link : TRUE).text))

\* str.strip on tokens: leading and trailing blanks go
RECURSIVE strip(_)
strip(s) == IF Len(s) > 0 /\ Head(s) = " " THEN strip(Tail(s))
            ELSE IF Len(s) > 0 /\ s[Len(s)] = " " THEN strip(SubSeq(s, 1, Len(s) - 1))
            ELSE s

\* etree.tostring: the markup, tags and text
tostring(markup) == [i \in 1..Len(markup) |-> markup[i].s]
\* HtmlStripper: only handle_data keeps text
RECURSIVE stripped_text(_)
stripped_text(markup) ==
    IF Len(markup) = 0 THEN EmptyStr
    ELSE (IF Head(markup).tag THEN EmptyStr ELSE <<Head(markup).s>>)
         \o stripped_text(Tail(markup))

_parse_tweet_text(te) ==
    LET content_div == _safe_select(te.element.content) IN
    IF content_div = {} THEN Ret(<<EmptyStr, EmptyStr>>)
    ELSE LET tweet_html == strip(tostring((CHOOSE c \in content_div : TRUE).markup))
             tweet_plaintext == strip(stripped_text((CHOOSE c \in content_div : TRUE).markup))
         IN Ret(<<tweet_html, tweet_plaintext>>)

\* list(generator) of instance_url + a.get("href") over the still images
RECURSIVE PhotoList(_, _)
PhotoList(instance_url_, images) ==
    IF Len(images) = 0 THEN Ret(<< >>)
    ELSE LET first == Add(instance_url_, get(Head(images).href))
             rest == PhotoList(instance_url_, Tail(images))
         IN IF Raised(first) THEN first
            ELSE IF Raised(rest) THEN rest
            ELSE Ret(<<first.v>> \o rest.v)

_parse_tweet_photos(te) ==
    LET attachments_div == _safe_select(te.element.attachments) IN
    IF attachments_div = {} THEN Ret(<< >>)
    ELSE PhotoList(te.instance_url, (CHOOSE a \in attachments_div : TRUE).images)

\* sources with a src are qualified, the others are skipped
RECURSIVE GifList(_, _)
GifList(instance_url_, gifs) ==
    IF Len(gifs) = 0 THEN << >>
    ELSE (IF get(Head(gifs).src) # PyNone
          THEN <<instance_url_ \o get(Head(gifs).src)>> ELSE << >>)
         \o GifList(instance_url_, Tail(gifs))

_parse_tweet_gifs(te) ==
    LET attachments_div == _safe_select(te.element.attachments) IN
    IF attachments_div = {} THEN Ret(<< >>)
    ELSE Ret(GifList(te.instance_url, (CHOOSE a \in attachments_div : TRUE).gifs))

_parse_tweet_video(te) ==
    LET attachments_div == _safe_select(te.element.attachments) IN
    IF attachments_div = {} THEN Ret(<<EmptyStr, EmptyStr>>)
    ELSE LET video_element == _safe_select((CHOOSE a \in attachments_div : TRUE).video) IN
         IF video_element = {} THEN Ret(<<EmptyStr, EmptyStr>>)
         ELSE LET video == CHOOSE x \in video_element : TRUE
                  poster_url == get(video.poster)
                  data_url == get(video.data_url)
                  source_element == _safe_select(video.source)
                  video_url == IF data_url = PyNone /\ source_element # {}
                               THEN get((CHOOSE x \in source_element : TRUE).src)
                               ELSE data_url
                  first == Add(te.instance_url, video_url)
                  second == Add(te.instance_url, poster_url)
              IN IF Raised(first) THEN first
                 ELSE IF Raised(second) THEN second
                 ELSE Ret(<<first.v, second.v>>)

\* TweetData(...): the arguments are evaluated in order, the first exception wins
_parse_tweet_element(te) ==
    LET link == _parse_tweet_link(te)
        author == _parse_tweet_author(te)
        date == _parse_tweet_date(te)
        text == _parse_tweet_text(te)
        photos == _parse_tweet_photos(te)
        gifs == _parse_tweet_gifs(te)
        video == _parse_tweet_video(te)
    IN IF Raised(link) THEN link
       ELSE IF Raised(author) THEN author
       ELSE IF Raised(date) THEN date
       ELSE IF Raised(text) THEN text
       ELSE IF Raised(photos) THEN photos
       ELSE IF Raised(gifs) THEN gifs
       ELSE IF Raised(video) THEN video
       ELSE Ret([link |-> link.v,
                 author_fullname |-> author.v,
                 timestamp |-> isoformat(date.v),
                 text_html |-> text.v[1],
                 text_plain |-> text.v[2],
                 photo_urls |-> photos.v,
                 gif_urls |-> gifs.v,
                 video_url |-> video.v[1],
                 videothumb_url |-> video.v[2]])

(***************************************************************************)
(* Markup the parsers are run on.                                          *)
(***************************************************************************)
Element(id, retweet, tweet_link, fullname, date, content, attachments) ==
    [id |-> id,
     retweet_header |-> IF retweet THEN <<"div.retweet-header">> ELSE << >>,
     tweet_link |-> tweet_link,
     fullname |-> fullname, date |-> date, content |-> content,
     attachments |-> attachments]

Title(month, day, year, hour, minute, ampm, sep, tz) ==
    [month |-> month, day |-> day, year |-> year, hour |-> hour,
     minute |-> minute, ampm |-> ampm, sep |-> sep, tz |-> tz]

\* "Nov 1, 2022 MIDDOT 4:34 PM UTC"
SampleTitle == Title(<<"N","o","v">>, <<1>>, <<2,0,2,2>>, <<4>>, <<3,4>>, "PM", "MIDDOT", "UTC")
SampleDate == << [title |-> {SampleTitle}] >>
SampleLink == << [href |-> {<<"/user/status/123">>}] >>
SampleName == << [text |-> {<<"Full Name">>}] >>
SampleContent == << [markup |-> << [tag |-> TRUE, s |-> "<div>"], [tag |-> FALSE, s |-> " "],
                                   [tag |-> FALSE, s |-> "text"], [tag |-> TRUE, s |-> "</div>"],
                                   [tag |-> FALSE, s |-> " "] >>] >>
SampleVideo == << [poster |-> {<<"/pic/y.jpg">>}, data_url |-> {<<"/video/x.m3u8">>}, source |-> << >>] >>
SampleAttachments == << [images |-> << [href |-> {<<"/pic/1.jpg">>}], [href |-> {<<"/pic/2.jpg">>}] >>,
                         gifs |-> << [src |-> {}], [src |-> {<<"/pic/g.mp4">>}] >>,
                         video |-> SampleVideo] >>

HourTokens == {<<d>> : d \in 0..9} \cup {<<1, d>> : d \in 0..9}
                \cup {<<0, 4>>, <<0, 0>>, <<2, 0>>}
WellShapedTitles ==
    { Title(mo, d, y, h, mi, ap, "MIDDOT", "UTC") :
        mo \in {<<"N","o","v">>, <<"F","E","B">>, <<"J","u","n">>, <<"F","o","o">>, <<"S","e","p","t">>},
        d \in {<<1>>, <<2,9>>, <<3,1>>, <<0>>},
        y \in {<<2,0,2,2>>, <<2,0,2,4>>, <<0,0,0,0>>},
        h \in HourTokens,
        mi \in {<<0,0>>, <<3,4>>, <<5,9>>, <<6,0>>},
        ap \in {"AM", "PM", "am"} }
OtherTitles ==
    { Title(<<"N","o","v">>, <<1>>, <<2,0,2,2>>, <<4>>, <<3,4>>, "PM", sep, tz) :
        sep \in {"MIDDOT", "&#183;", "-"}, tz \in {"UTC", "GMT"} }
Titles == WellShapedTitles \cup OtherTitles

DateCases ==
    { Element(<<0, 0>>, FALSE, SampleLink, SampleName, date, SampleContent, << >>) :
        date \in {<< >>, << [title |-> {}] >>} \cup { << [title |-> {t}] >> : t \in Titles } }

Attrs(v) == {{}, {v}}
Videos ==
    {<< >>} \cup
    { << [poster |-> po, data_url |-> du, source |-> so] >> :
        po \in Attrs(<<"/pic/y.jpg">>), du \in Attrs(<<"/video/x.m3u8">>),
        so \in {<< >>, << [src |-> {}] >>, << [src |-> {<<"https://video.twimg.com/v.mp4">>}] >>} }
AttachmentCases ==
    {<< >>} \cup
    { << [images |-> im, gifs |-> gi, video |-> vi] >> :
        im \in {<< >>, << [href |-> {<<"/pic/1.jpg">>}], [href |-> {<<"/pic/2.jpg">>}] >>,
                << [href |-> {}] >>},
        gi \in {<< >>, << [src |-> {}], [src |-> {<<"/pic/g.mp4">>}] >>},
        vi \in Videos }
ShapeCases ==
    { Element(<<0, 0>>, FALSE, li, fu, da, co, at) :
        li \in {<< >>, << [href |-> {}] >>, SampleLink},
        fu \in {<< >>, << [text |-> {}] >>, SampleName},
        da \in {<< >>, SampleDate},
        co \in {<< >>, SampleContent},
        at \in AttachmentCases }

ParserInputs == DateCases \cup ShapeCases
HarnessInstance == Https \o <<"m.example">>
NoOutput == [fn |-> "none", r |-> Ret(EmptyStr)]

(***************************************************************************)
(* The timeline the mirrors serve: NPages pages, every page but the last   *)
(* with a "load more" link.                                                *)
(***************************************************************************)
username == "user"
\* the cursor that asks for page p; '' asks for page 1
CursorTo(p) == IF p = 1 THEN EmptyStr ELSE <<"?cursor=", ToString(p)>>
PageOf(cursor_) == CHOOSE p \in 1..NPages : CursorTo(p) = cursor_
LinkOf(p, i) == << [href |-> {<<"/user/status/", ToString(p), ToString(i)>>}] >>
Full(p, i) == Element(<<p, i>>, FALSE, LinkOf(p, i), SampleName, SampleDate, SampleContent, SampleAttachments)
Plain(p, i) == Element(<<p, i>>, FALSE, LinkOf(p, i), SampleName, SampleDate, SampleContent, << >>)
Retweet(p, i) == Element(<<p, i>>, TRUE, LinkOf(p, i), SampleName, SampleDate, SampleContent, << >>)
\* a video element without poster
NoPoster(p, i) ==
    Element(<<p, i>>, FALSE, LinkOf(p, i), << >>, << >>, << >>,
            << [images |-> << >>, gifs |-> << >>,
                video |-> << [poster |-> {}, data_url |-> {<<"/video/x.m3u8">>}, source |-> << >>] >>] >>)
\* a video element with a nested source instead of data-url
SourceVideo(p, i) ==
    Element(<<p, i>>, FALSE, LinkOf(p, i), SampleName, SampleDate, << >>,
            << [images |-> << >>, gifs |-> << >>,
                video |-> << [poster |-> {<<"/pic/y.jpg">>}, data_url |-> {},
                              source |-> << [src |-> {<<"https://video.twimg.com/v.mp4">>}] >>] >>] >>)
TimelineItems(p) ==
    CASE p % 4 = 1 -> << Full(p, 1), Retweet(p, 2) >>
      [] p % 4 = 2 -> << SourceVideo(p, 1) >>
      [] p % 4 = 3 -> << Retweet(p, 1), Full(p, 2) >>
      [] OTHER -> << NoPoster(p, 1), Plain(p, 2) >>
Page(p) == [items |-> TimelineItems(p),
            show_more |-> IF p < NPages THEN << [href |-> {CursorTo(p + 1)}] >> ELSE << >>]

(***************************************************************************)
(* What the network can answer.                                            *)
(***************************************************************************)
\* a response of the redirect service or of a mirror's /twitter page
DiscoveryResponses ==
    {[error |-> TRUE, ok |-> FALSE, hostname |-> EmptyStr],
     [error |-> FALSE, ok |-> FALSE, hostname |-> <<"m1">>]}
    \cup {[error |-> FALSE, ok |-> TRUE, hostname |-> h] : h \in HostNames}
\* a response of the instance-list page
ListResponses ==
    {[error |-> TRUE, ok |-> FALSE, list |-> {}],
     [error |-> FALSE, ok |-> FALSE, list |-> {}]}
    \cup {[error |-> FALSE, ok |-> TRUE, list |-> l] : l \in InstanceLists}
\* a timeline page request: connection error, error status, a body lxml
\* cannot parse, a page with the enablehls form, a good page
FetchOutcomes == {"error", "status", "unparseable", "hls", "ok"}

\* any answer to any request
AnyNetwork == [lists |-> ListResponses, fetches |-> FetchOutcomes, symptoms |-> OpenHosts]
\* every fetch succeeds, the instance list names m1, and m1 is a sound mirror
SoundNetwork == [lists |-> {r \in ListResponses : r.ok /\ <<"m1">> \in r.list},
                 fetches |-> {"unparseable", "hls", "ok"},
                 symptoms |-> OpenHosts \ {<<"m1">>}]

(***************************************************************************)
(* NitterInstanceSwitcher.                                                 *)
(***************************************************************************)
PyFalse == <<"<False>">>

\* add_bad_instance without removeprefix: the url itself is added
add_bad_instance_url(instance_url_) ==
    bad_instances \cup {instance_url_}

\* add_bad_instance: the new value of bad_instances
add_bad_instance(instance_url_) ==
    bad_instances \cup {removeprefix(instance_url_, Https)}

\* _get_random: the hostname of the final url, False when the request failed
_get_random(response) ==
    IF response.error THEN PyFalse
    ELSE IF ~response.ok THEN PyFalse
    ELSE response.hostname

\* _get_random_us after random.choice: the chosen hostname, False when the
\* request to it failed
_get_random_us(hostname, response) ==
    IF response.error THEN PyFalse
    ELSE IF ~response.ok THEN PyFalse
    ELSE hostname

\* Usable without the test against us_instances_with_age_restriction
UsableIgnoringAgeRestriction(hostname) ==
    ~ \/ hostname = EmptyStr
      \/ hostname \in bad_instances

\* Usable without the test against bad_instances
UsableIgnoringBad(hostname) ==
    ~ \/ hostname = EmptyStr
      \/ (us_instances_only /\ hostname \in us_instances_with_age_restriction)

\* line 180: the hostname is returned to the caller
Usable(hostname) ==
    ~ \/ hostname = EmptyStr
      \/ hostname \in bad_instances
      \/ (us_instances_only /\ hostname \in us_instances_with_age_restriction)

\* an exception leaves the generator at `site`
Raises(site, e) ==
    /\ pc' = "raised"
    /\ exc' = <<site, e>>

\* lines 178-191 of new, and the assignment of its result in line 319
NewResult(hostname) ==
    IF hostname = PyFalse \/ ~Usable(hostname)
    THEN \* return cls.new(session)
         UNCHANGED <<switches, current_instance, instance_url, pc, exc>>
    ELSE /\ switches' = switches + 1
         /\ current_instance' = Https \o hostname
         /\ instance_url' = Https \o hostname
         /\ pc' = "fetch"
         /\ exc' = exc

\* lines 170-171: the call sleeps when a selection has succeeded before; the
\* record of the call: whether it is the first call of the process, and whether
\* it slept
Attempt == [calls |-> IF last_attempt.calls = "none" THEN "first" ELSE "later",
            slept |-> switches > 0]

new_unchanged == <<bad_instances, us_instances_only, one_page_only, source, pagecount,
                   pages_until_instanceswitch, cursor, root, idx, yielded, parsed,
                   history_vars, harness_vars, program_vars>>

\* one call of new through the redirect service
NewRedirect ==
    /\ pc = "new"
    /\ ~us_instances_only
    /\ last_attempt' = Attempt
    /\ \E response \in DiscoveryResponses : NewResult(_get_random(response))
    /\ UNCHANGED <<us_instances, new_unchanged>>

\* lines 158-166: random.choice of the list, then the request to the choice
ChooseUs(list) ==
    IF list = {}
    THEN /\ Raises("new", "IndexError")
         /\ UNCHANGED <<switches, current_instance, instance_url>>
    ELSE \E hostname \in list, response \in DiscoveryResponses :
            NewResult(_get_random_us(hostname, response))

\* one call of new in us_instances_only mode that has to fetch the list
NewUsFetchList(network) ==
    /\ pc = "new"
    /\ us_instances_only
    /\ us_instances = {}
    /\ last_attempt' = Attempt
    /\ \E r \in network.lists :
          IF r.error
          THEN /\ Raises("new", "ConnectionError")
               /\ UNCHANGED <<us_instances, switches, current_instance, instance_url>>
          ELSE IF ~r.ok
          THEN /\ Raises("new", "HTTPError")
               /\ UNCHANGED <<us_instances, switches, current_instance, instance_url>>
          ELSE /\ us_instances' = {r.list}
               /\ ChooseUs(r.list)
    /\ UNCHANGED new_unchanged

\* one call of new in us_instances_only mode with the list cached
NewUsCached ==
    /\ pc = "new"
    /\ us_instances_only
    /\ us_instances # {}
    /\ last_attempt' = Attempt
    /\ ChooseUs(CHOOSE l \in us_instances : TRUE)
    /\ UNCHANGED <<us_instances, new_unchanged>>

(***************************************************************************)
(* _fetch_tweet_elements.                                                  *)
(***************************************************************************)
\* line 320: f"{instance_url}/{username}/{source.name.lower()}{cursor}"
SourceLower(source_) == IF source_ = "SEARCH" THEN "search" ELSE "media"
Pagelink(instance_url_, source_, cursor_) ==
    instance_url_ \o <<"/", username, "/", SourceLower(source_)>> \o cursor_
\* the host a request to pagelink goes to
HostOf(pagelink) == removeprefix(SubSeq(pagelink, 1, 2), Https)

\* LoopTest with a period of four pages
LoopTestEveryFour ==
    /\ pc = "loop"
    /\ IF one_page_only /\ ~(pagecount < 1)
       THEN /\ pc' = "done"
            /\ UNCHANGED <<pagecount, pages_until_instanceswitch>>
       ELSE /\ pagecount' = pagecount + 1
            /\ IF pages_until_instanceswitch - 1 <= 0
               THEN /\ pages_until_instanceswitch' = 4
                    /\ pc' = "new"
               ELSE /\ pages_until_instanceswitch' = pages_until_instanceswitch - 1
                    /\ pc' = "fetch"
    /\ UNCHANGED <<switcher_vars, one_page_only, source, exc, instance_url, cursor,
                   root, idx, yielded, parsed, history_vars, last_attempt,
                   harness_vars, program_vars>>

\* lines 313-319: the loop condition, the counters, the periodic rotation
LoopTest ==
    /\ pc = "loop"
    /\ IF one_page_only /\ ~(pagecount < 1)
       THEN /\ pc' = "done"
            /\ UNCHANGED <<pagecount, pages_until_instanceswitch>>
       ELSE /\ pagecount' = pagecount + 1
            /\ IF pages_until_instanceswitch - 1 <= 0
               THEN /\ pages_until_instanceswitch' = 3
                    /\ pc' = "new"
               ELSE /\ pages_until_instanceswitch' = pages_until_instanceswitch - 1
                    /\ pc' = "fetch"
    /\ UNCHANGED <<switcher_vars, one_page_only, source, exc, instance_url, cursor,
                   root, idx, yielded, parsed, history_vars, last_attempt,
                   harness_vars, program_vars>>

\* BadMirror without pagecount -= 1
BadMirrorKeepsCount ==
    /\ bad_instances' = add_bad_instance(instance_url)
    /\ pages_until_instanceswitch' = 0
    /\ pagecount' = pagecount
    /\ pc' = "loop"
    /\ UNCHANGED <<exc, root, idx>>

\* BadMirror without pages_until_instanceswitch = 0
BadMirrorNoRotation ==
    /\ bad_instances' = add_bad_instance(instance_url)
    /\ pages_until_instanceswitch' = pages_until_instanceswitch
    /\ pagecount' = pagecount - 1
    /\ pc' = "loop"
    /\ UNCHANGED <<exc, root, idx>>

\* lines 329-333 and 338-342: the mirror showed a bad-mirror symptom
BadMirror ==
    /\ bad_instances' = add_bad_instance(instance_url)
    /\ pages_until_instanceswitch' = 0
    /\ pagecount' = pagecount - 1
    /\ pc' = "loop"
    /\ UNCHANGED <<exc, root, idx>>

\* HandleResponse with a failed request treated as a bad-mirror symptom
HandleResponseRotating(outcome) ==
    IF outcome \in {"error", "status", "unparseable", "hls"}
    THEN BadMirror
    ELSE /\ root' = PageOf(cursor)
         /\ idx' = 1
         /\ pc' = "emit"
         /\ UNCHANGED <<bad_instances, pages_until_instanceswitch, pagecount, exc>>

\* lines 322-342: what the loop body makes of the response to the page request
HandleResponse(outcome) ==
    CASE outcome = "error" ->      \* session.get raises
           /\ Raises("fetch", "ConnectionError")
           /\ UNCHANGED <<bad_instances, pages_until_instanceswitch, pagecount, root, idx>>
      [] outcome = "status" ->     \* response.raise_for_status() raises
           /\ Raises("fetch", "HTTPError")
           /\ UNCHANGED <<bad_instances, pages_until_instanceswitch, pagecount, root, idx>>
      [] outcome \in {"unparseable", "hls"} ->
           BadMirror
      [] OTHER ->
           /\ root' = PageOf(cursor)
           /\ idx' = 1
           /\ pc' = "emit"
           /\ UNCHANGED <<bad_instances, pages_until_instanceswitch, pagecount, exc>>

\* lines 320-342: the page request and the handling of its response
Fetch(network) ==
    /\ pc = "fetch"
    /\ nrequests' = nrequests + 1
    /\ serving' = HostOf(Pagelink(instance_url, source, cursor))
    /\ requested' = cursor
    /\ \E outcome \in network.fetches :
          /\ outcome \in {"unparseable", "hls"} => serving' \in network.symptoms
          /\ answer' = outcome
          /\ symptomatic' = IF outcome \in {"unparseable", "hls"}
                            THEN symptomatic \cup {serving'} ELSE symptomatic
          /\ streak' = [switches |-> switches,
                        pages |-> (IF streak.switches = switches THEN streak.pages ELSE 0)
                                    + (IF outcome = "ok" THEN 1 ELSE 0)]
          /\ HandleResponse(outcome)
    /\ UNCHANGED <<switches, current_instance, us_instances_only, us_instances,
                   one_page_only, source, instance_url, cursor, yielded, parsed,
                   served, last_attempt, harness_vars, program_vars>>

emit_unchanged == <<switcher_vars, one_page_only, source, exc, pagecount, instance_url,
                    pages_until_instanceswitch, root, parsed, serving, symptomatic,
                    nrequests, answer, streak, requested, last_attempt, harness_vars,
                    program_vars>>

\* IsFiltered without the test of the source
IsFilteredAnySource(source_, tweet_element) ==
    _safe_select(tweet_element.retweet_header) # {}

\* lines 345-348: the item is passed over
IsFiltered(source_, tweet_element) ==
    /\ source_ = "SEARCH"
    /\ _safe_select(tweet_element.retweet_header) # {}

\* lines 344-348: the for loop passes over a retweet of a search page
SkipRetweet ==
    /\ pc = "emit"
    /\ idx <= Len(Page(root).items)
    /\ IsFiltered(source, Page(root).items[idx])
    /\ idx' = idx + 1
    /\ UNCHANGED <<pc, cursor, yielded, served, emit_unchanged>>

\* line 349: yield TweetElementWithInstance(instance_url, tweet_element)
Yield ==
    /\ pc = "emit"
    /\ idx <= Len(Page(root).items)
    /\ ~IsFiltered(source, Page(root).items[idx])
    /\ yielded' = Append(yielded, [instance_url |-> instance_url,
                                   element |-> Page(root).items[idx]])
    /\ served' = Append(served, serving)
    /\ idx' = idx + 1
    /\ UNCHANGED <<pc, cursor, emit_unchanged>>

\* ShowMore with the test of line 352 inverted: a "load more" link ends the crawl
ShowMoreBreaksOnLink ==
    /\ pc = "emit"
    /\ idx > Len(Page(root).items)
    /\ pc' = "done"
    /\ UNCHANGED <<cursor, idx, yielded, served, emit_unchanged>>

\* lines 351-354: the "load more" link ends or continues the crawl
ShowMore ==
    /\ pc = "emit"
    /\ idx > Len(Page(root).items)
    /\ LET showmore_link == _safe_select(Page(root).show_more) IN
       IF showmore_link = {}
       THEN /\ pc' = "done"
            /\ cursor' = cursor
       ELSE /\ cursor' = get((CHOOSE l \in showmore_link : TRUE).href)
            /\ pc' = "loop"
    /\ UNCHANGED <<idx, yielded, served, emit_unchanged>>

(***************************************************************************)
(* The consumer of the generator parses the records it was given, in       *)
(* order, at any later time.                                               *)
(***************************************************************************)
ParseNext ==
    /\ Len(parsed) < Len(yielded)
    /\ parsed' = Append(parsed, _parse_tweet_element(yielded[Len(parsed) + 1]))
    /\ UNCHANGED <<switcher_vars, crawl_vars, history_vars, last_attempt, harness_vars,
                   program_vars>>

(***************************************************************************)
(* _download_tweet_data and _download_something_to_local_fs.               *)
(* A path is a string; the network answers the k-th requests.get of one    *)
(* call with answers.get[k], and subprocess.call ends as answers.call      *)
(* says.  The result is what the call returned or raised, the files it     *)
(* wrote, and the downloads it attempted.                                  *)
(***************************************************************************)
\* requests.get of a media url: a success status, a non-success status, or
\* a connection error
GetOutcomes == {"ok", "status", "error"}
\* subprocess.call of the video downloader: the file is written, the tool
\* exits with an error, or the binary cannot be started
CallOutcomes == {"written", "failed", "oserror"}

\* _download_something_to_local_fs without the try around raise_for_status
_download_something_raising(url, target_file, get_answer) ==
    CASE get_answer = "error" -> [exc |-> <<"ConnectionError">>, written |-> {}]
      [] get_answer = "status" -> [exc |-> <<"HTTPError">>, written |-> {}]
      [] OTHER -> [exc |-> EmptyStr, written |-> {target_file}]

\* lines 496-508: requests.get is outside the try, raise_for_status inside
_download_something_to_local_fs(url, target_file, get_answer) ==
    CASE get_answer = "error" -> [exc |-> <<"ConnectionError">>, written |-> {}]
      [] get_answer = "status" -> [exc |-> EmptyStr, written |-> {}]
      [] OTHER -> [exc |-> EmptyStr, written |-> {target_file}]

\* one download and the append of its target (lines 283-284, 288-289, 301-302)
DownloadAndAppend(st, url, target, answers) ==
    IF st.exc # EmptyStr THEN st
    ELSE LET get_answer == answers.get[Len(st.attempts) + 1]
             d == _download_something_to_local_fs(url, target, get_answer)
         IN [exc |-> d.exc,
             names |-> IF d.exc # EmptyStr THEN st.names ELSE Append(st.names, target),
             written |-> st.written \cup d.written,
             attempts |-> Append(st.attempts,
                                 [url |-> url, target |-> target, answer |-> get_answer])]

\* for i, url in enumerate(urls): the target is directory / f'{stem}{t}_{i}{ext}'
RECURSIVE DownloadEach(_, _, _, _, _, _, _)
DownloadEach(st, urls, i, directory, stem, ext, answers) ==
    IF i >= Len(urls) THEN st
    ELSE DownloadEach(
            DownloadAndAppend(st, urls[i + 1],
                              directory \o <<"/", stem, answers.t, "_", ToString(i), ext>>,
                              answers),
            urls, i + 1, directory, stem, ext, answers)

\* lines 291-302: the video through the external tool, then its thumbnail
DownloadVideo(st, tweet_data, directory, answers) ==
    IF st.exc # EmptyStr \/ tweet_data.video_url = EmptyStr THEN st
    ELSE LET video_target == directory \o <<"/", "tw_video_", answers.t, ".mp4">>
             thumb_target == directory \o <<"/", "tw_thumb_", answers.t, ".jpg">>
         IN IF answers.call = "oserror"
            THEN [st EXCEPT !.exc = <<"FileNotFoundError">>]
            ELSE DownloadAndAppend(
                    [st EXCEPT !.names = Append(@, video_target),
                               !.written = IF answers.call = "written"
                                           THEN @ \cup {video_target} ELSE @],
                    tweet_data.videothumb_url, thumb_target, answers)

\* lines 271-304
_download_tweet_data(tweet_data, directory, answers) ==
    LET json_target == directory \o <<"/", "tw_info_", answers.t, ".json">>
        st0 == [exc |-> EmptyStr, names |-> <<json_target>>,
                written |-> {json_target}, attempts |-> << >>]
        st1 == DownloadEach(st0, tweet_data.photo_urls, 0, directory, "tw_photo_", ".jpg", answers)
        st2 == DownloadEach(st1, tweet_data.gif_urls, 0, directory, "tw_gif_", ".mp4", answers)
    IN DownloadVideo(st2, tweet_data, directory, answers)

\* the requests.get calls one run of _download_tweet_data can make
DownloadsOf(tweet_data) ==
    Len(tweet_data.photo_urls) + Len(tweet_data.gif_urls)
      + (IF tweet_data.video_url = EmptyStr THEN 0 ELSE 1)
\* every way the network and the tool can answer one run
AnswersFor(tweet_data, t) ==
    { [t |-> t, get |-> g, call |-> c] :
        g \in [1..DownloadsOf(tweet_data) -> GetOutcomes], c \in CallOutcomes }

\* the records the download is run on: photos, a gif and a video; no media;
\* a video only
DownloadRecords ==
    { _parse_tweet_element([instance_url |-> HarnessInstance, element |-> e]).v :
        e \in {Full(1, 1), Plain(1, 2), SourceVideo(2, 1)} }
HarnessDirectory == <<"/tmp/tw_run">>
DownloadInputs ==
    UNION { { [tweet_data |-> td, answers |-> a] : a \in AnswersFor(td, "t") } :
            td \in DownloadRecords }

(***************************************************************************)
(* __main__, TemporaryLocalDownloadDir and main.                           *)
(***************************************************************************)
\* TemporaryLocalDownloadDir.dirname, and Path("dl") of the automated run
TempDirName == <<"/tmp/tw_run">>
GhDirName == <<"dl">>

\* lines 524-536: the automated run makes its directory, runs the video tool
\* (which returns or raises CalledProcessError) and ends; main is not called
GhActionRun ==
    /\ main_pc = "start"
    /\ IS_GH_ACTION
    /\ dirs' = dirs \cup {GhDirName}
    /\ main_pc' = "exited"
    /\ UNCHANGED <<switcher_vars, crawl_vars, history_vars, last_attempt, parsed,
                   harness_vars, IS_GH_ACTION, main_i, handled, uploaded>>

\* lines 544 and 64-70: __enter__ makes the directory or finds it there
EnterTempDir ==
    /\ main_pc = "start"
    /\ ~IS_GH_ACTION
    /\ dirs' = dirs \cup {TempDirName}
    /\ main_pc' = "main"
    /\ UNCHANGED <<switcher_vars, crawl_vars, history_vars, last_attempt, parsed,
                   harness_vars, IS_GH_ACTION, main_i, handled, uploaded>>

\* lines 227-240: main up to the call of _fetch_tweet_elements
MainStart ==
    /\ main_pc = "main"
    /\ us_instances_only' = TRUE
    /\ main_i' = 2
    /\ main_pc' = "for"
    /\ UNCHANGED <<bad_instances, switches, current_instance, us_instances, crawl_vars,
                   history_vars, last_attempt, parsed, harness_vars, IS_GH_ACTION, dirs,
                   handled, uploaded>>

\* the for statement of line 240 is waiting for the generator
Pulling == main_pc = "for" /\ Len(handled) = Len(yielded)

\* lines 244-250: what the body of the loop can make of tweet_element: the
\* exception the except clause caught, and the files _download_tweet_data
\* returned
Body(tweet_element, t) ==
    LET tweet_data == _parse_tweet_element(tweet_element) IN
    IF Raised(tweet_data)
    THEN {[exc |-> tweet_data.exc, files |-> << >>]}
    ELSE { LET d == _download_tweet_data(tweet_data.v, TempDirName, a)
           IN [exc |-> d.exc, files |-> IF d.exc # EmptyStr THEN << >> ELSE d.names] :
             a \in AnswersFor(tweet_data.v, t) }

\* lines 240-250: one iteration of the for loop on the element the generator
\* yielded; the continue of line 247 comes before the upload of line 248
MainIter ==
    /\ main_pc = "for"
    /\ Len(handled) < Len(yielded)
    /\ main_i' = main_i - 1
    /\ IF main_i - 1 < 0
       THEN /\ main_pc' = "break"
            /\ handled' = handled
       ELSE /\ main_pc' = "for"
            /\ \E r \in Body(yielded[Len(handled) + 1], ToString(Len(handled))) :
                  handled' = Append(handled, r)
    /\ uploaded' = uploaded
    /\ UNCHANGED <<switcher_vars, crawl_vars, history_vars, last_attempt, parsed,
                   harness_vars, IS_GH_ACTION, dirs>>

\* line 240: the generator is exhausted, or an exception left it: main returns
\* or raises
MainLeave ==
    /\ Pulling
    /\ pc \in {"done", "raised"}
    /\ main_pc' = IF pc = "done" THEN "returned" ELSE "raised"
    /\ UNCHANGED <<switcher_vars, crawl_vars, history_vars, last_attempt, parsed,
                   harness_vars, IS_GH_ACTION, dirs, main_i, handled, uploaded>>

\* KeyboardInterrupt while main runs: no except clause of main catches it
Interrupt ==
    /\ main_pc \in {"main", "for"}
    /\ main_pc' = "interrupted"
    /\ UNCHANGED <<switcher_vars, crawl_vars, history_vars, last_attempt, parsed,
                   harness_vars, IS_GH_ACTION, dirs, main_i, handled, uploaded>>

\* the ways the with block of line 544 ends: main returns after the break of
\* line 243 or at the end of the generator, or an exception leaves it
WithBlockEnds == {"break", "returned", "raised", "interrupted"}

\* lines 72-73: __exit__ removes the directory, however the with block ended
ExitTempDir ==
    /\ main_pc \in WithBlockEnds
    /\ dirs' = dirs \ {TempDirName}
    /\ main_pc' = "exited"
    /\ UNCHANGED <<switcher_vars, crawl_vars, history_vars, last_attempt, parsed,
                   harness_vars, IS_GH_ACTION, main_i, handled, uploaded>>

(***************************************************************************)
(* Specifications of the crawl.                                            *)
(***************************************************************************)
SwitcherInit ==
    /\ bad_instances = PreseededBad
    /\ switches = 0
    /\ current_instance = EmptyStr
    /\ us_instances = {}

CrawlInit ==
    /\ pc = "loop"
    /\ exc = EmptyStr
    /\ pagecount = 0
    /\ instance_url = EmptyStr
    /\ pages_until_instanceswitch = 0
    /\ cursor = EmptyStr
    /\ root = 0
    /\ idx = 0
    /\ yielded = << >>
    /\ parsed = << >>
    /\ serving = EmptyStr
    /\ symptomatic = {}
    /\ nrequests = 0
    /\ answer = "none"
    /\ served = << >>
    /\ streak = [switches |-> 0, pages |-> 0]
    /\ requested = EmptyStr
    /\ last_attempt = [calls |-> "none", slept |-> FALSE]

HarnessIdle ==
    /\ input = Plain(0, 0)
    /\ output = NoOutput

\* the crawl on its own: no process around it
ProgramIdle ==
    /\ IS_GH_ACTION = FALSE
    /\ main_pc = "idle"
    /\ dirs = {}
    /\ main_i = 0
    /\ handled = << >>
    /\ uploaded = << >>

Init ==
    /\ SwitcherInit
    /\ CrawlInit
    /\ HarnessIdle
    /\ ProgramIdle
    /\ us_instances_only \in BOOLEAN
    /\ one_page_only \in BOOLEAN
    /\ source \in {"MEDIA", "SEARCH"}

Next ==
    \/ LoopTest
    \/ NewRedirect
    \/ NewUsFetchList(AnyNetwork)
    \/ NewUsCached
    \/ Fetch(AnyNetwork)
    \/ SkipRetweet
    \/ Yield
    \/ ShowMore
    \/ ParseNext

Spec == Init /\ [][Next]_vars

\* the crawl on a network where every fetch succeeds and m1 is sound, drained
\* by its consumer, with a discovery that does not fail forever
SoundNext ==
    \/ LoopTest
    \/ NewRedirect
    \/ NewUsFetchList(SoundNetwork)
    \/ NewUsCached
    \/ Fetch(SoundNetwork)
    \/ SkipRetweet
    \/ Yield
    \/ ShowMore
    \/ ParseNext

NewReturns == (NewRedirect \/ NewUsFetchList(SoundNetwork) \/ NewUsCached) /\ pc' = "fetch"

FairSpec ==
    /\ Init
    /\ [][SoundNext]_vars
    /\ WF_vars(LoopTest)
    /\ WF_vars(NewReturns)
    /\ WF_vars(Fetch(SoundNetwork))
    /\ WF_vars(SkipRetweet)
    /\ WF_vars(Yield)
    /\ WF_vars(ShowMore)

(***************************************************************************)
(* Specification of the parsers alone: one element is drawn, and a parser  *)
(* is applied to it.                                                       *)
(***************************************************************************)
ParseInit ==
    /\ SwitcherInit
    /\ CrawlInit
    /\ us_instances_only = FALSE
    /\ one_page_only = FALSE
    /\ source = "MEDIA"
    /\ input \in ParserInputs
    /\ output = NoOutput
    /\ ProgramIdle

ApplyParseDate ==
    /\ output = NoOutput
    /\ output' = [fn |-> "date",
                  r |-> _parse_tweet_date([instance_url |-> HarnessInstance, element |-> input])]
    /\ UNCHANGED <<switcher_vars, crawl_vars, history_vars, last_attempt, parsed, input,
                   program_vars>>

ApplyParseElement ==
    /\ output = NoOutput
    /\ output' = [fn |-> "element",
                  r |-> _parse_tweet_element([instance_url |-> HarnessInstance, element |-> input])]
    /\ UNCHANGED <<switcher_vars, crawl_vars, history_vars, last_attempt, parsed, input,
                   program_vars>>

ParseNextStep == ApplyParseDate \/ ApplyParseElement

ParseSpec == ParseInit /\ [][ParseNextStep]_vars

(***************************************************************************)
(* Specification of the media download alone: a record and the answers of  *)
(* the network are drawn, and _download_tweet_data is applied.             *)
(***************************************************************************)
DownloadInit ==
    /\ SwitcherInit
    /\ CrawlInit
    /\ us_instances_only = FALSE
    /\ one_page_only = FALSE
    /\ source = "MEDIA"
    /\ input \in DownloadInputs
    /\ output = NoOutput
    /\ ProgramIdle

ApplyDownload ==
    /\ output = NoOutput
    /\ output' = [fn |-> "download",
                  r |-> _download_tweet_data(input.tweet_data, HarnessDirectory, input.answers)]
    /\ UNCHANGED <<switcher_vars, crawl_vars, history_vars, last_attempt, parsed, input,
                   program_vars>>

DownloadSpec == DownloadInit /\ [][ApplyDownload]_vars

(***************************************************************************)
(* Specification of the process: __main__, and in the manual run main      *)
(* driving the crawl, which advances when the for loop asks for the next   *)
(* element.                                                                *)
(***************************************************************************)
ProgramInit ==
    /\ SwitcherInit
    /\ CrawlInit
    /\ HarnessIdle
    /\ us_instances_only = FALSE
    /\ one_page_only \in BOOLEAN
    /\ source = "SEARCH"
    /\ IS_GH_ACTION \in BOOLEAN
    /\ main_pc = "start"
    /\ dirs \in {{}, {TempDirName}}
    /\ main_i = 0
    /\ handled = << >>
    /\ uploaded = << >>

ProgramNext ==
    \/ GhActionRun
    \/ EnterTempDir
    \/ MainStart
    \/ Pulling /\ LoopTest
    \/ Pulling /\ NewUsFetchList(AnyNetwork)
    \/ Pulling /\ NewUsCached
    \/ Pulling /\ Fetch(AnyNetwork)
    \/ Pulling /\ SkipRetweet
    \/ Pulling /\ Yield
    \/ Pulling /\ ShowMore
    \/ MainIter
    \/ MainLeave
    \/ Interrupt
    \/ ExitTempDir

ProgramSpec == ProgramInit /\ [][ProgramNext]_vars

(***************************************************************************)
(* The claims.                                                             *)
(***************************************************************************)
\* the hostname of an instance url
HostnameOfUrl(url) == removeprefix(url, Https)

\* C1: whenever NitterInstanceSwitcher.new returns (switches is incremented),
\* the hostname of the mirror it returns is not in bad_instances at that moment.
C1_NewNeverReturnsBad ==
    [][switches' # switches =>
         /\ HostnameOfUrl(instance_url') \notin bad_instances'
         /\ HostnameOfUrl(current_instance') \notin bad_instances']_vars

\* C1 witness: new has returned again after a mirror was added to bad_instances
C1_Witness == switches >= 2 /\ symptomatic # {} /\ pc = "fetch"

\* C2: bad_instances only grows; a hostname that served a bad-mirror symptom is
\* in bad_instances from then on, the pre-seeded entries stay, and no later
\* return of new hands out a hostname that served a symptom.
C2_BadSetOnlyGrows ==
    /\ [](symptomatic \cup PreseededBad \subseteq bad_instances)
    /\ [][/\ bad_instances \subseteq bad_instances'
          /\ switches' # switches => HostnameOfUrl(instance_url') \notin symptomatic]_vars

\* C2 witness: two mirrors were marked bad and the crawl got a page from a third
C2_Witness == Cardinality(symptomatic) >= 2 /\ pc = "emit"

\* the ids of the items a crawl has to yield: per page, in order, the items that
\* are no retweet when the source is SEARCH, and all items when it is MEDIA
MustYield(e) == source = "MEDIA" \/ e.retweet_header = << >>
RECURSIVE ExpectedUpTo(_)
ExpectedUpTo(p) ==
    IF p = 0 THEN << >>
    ELSE ExpectedUpTo(p - 1) \o SelectSeq(TimelineItems(p), MustYield)
YieldedElements == [k \in 1..Len(yielded) |-> yielded[k].element]

\* C3: on a network where every fetch succeeds, a drained crawl without the
\* one-page flag terminates, and when it has terminated it has yielded exactly
\* the non-filtered items of pages 1..NPages, in order, each once.
C3_CrawlYieldsAllPages ==
    (~one_page_only) =>
        /\ <>(pc = "done")
        /\ [](pc = "done" => YieldedElements = ExpectedUpTo(NPages))

\* C3 witness: the crawl ended after bad-mirror retries and a periodic rotation
C3_Witness ==
    /\ pc = "done" /\ ~one_page_only
    /\ Cardinality(symptomatic) >= 2 /\ switches >= 4

\* C4: no exception leaves NitterInstanceSwitcher.new.
C4_NewNeverRaises == exc = EmptyStr \/ exc[1] # "new"

\* C5: when the network answers a page request with a connection or HTTP error,
\* the exception leaves the generator and the serving mirror is not marked bad;
\* after that no page is requested, nothing is yielded and nothing is marked.
C5_HttpErrorEndsCrawl ==
    [][/\ (nrequests' # nrequests /\ answer' \in {"error", "status"}) =>
             /\ pc' = "raised" /\ exc'[1] = "fetch"
             /\ bad_instances' = bad_instances
             /\ yielded' = yielded
       /\ pc = "raised" =>
             /\ pc' = "raised"
             /\ nrequests' = nrequests
             /\ yielded' = yielded
             /\ bad_instances' = bad_instances]_vars

\* C5 witness: an error status ended a crawl that had yielded records before
C5_Witness == pc = "raised" /\ answer = "status" /\ Len(yielded) >= 2 /\ nrequests >= 3

\* C6: while a page is iterated, the records yielded from it are exactly its
\* items before the loop position that must be yielded (all of them for MEDIA,
\* those without retweet header for SEARCH); no SEARCH record has the header.
C6_RetweetFilter ==
    /\ source = "SEARCH" =>
          \A k \in 1..Len(yielded) : yielded[k].element.retweet_header = << >>
    /\ pc = "emit" =>
          LET due == SelectSeq(SubSeq(Page(root).items, 1, idx - 1), MustYield) IN
          /\ Len(yielded) >= Len(due)
          /\ SubSeq(YieldedElements, Len(yielded) - Len(due) + 1, Len(yielded)) = due

\* C6 witness: the for loop of a SEARCH crawl has passed the retweet of page 3
C6_Witness == source = "SEARCH" /\ pc = "emit" /\ root = 3 /\ idx = 3

\* the title attribute of the date link of an element, when it has one
HasTitle(e) == Len(e.date) > 0 /\ e.date[1].title # {}
TitleOf(e) == CHOOSE t \in e.date[1].title : TRUE
\* the title names a month of the table and a day of that month
NamesCalendarDay(t) ==
    /\ MonthIndex(lower(t.month)) # 0
    /\ int(t.year) \in 1..9999
    /\ int(t.day) >= 1
    /\ int(t.day) <= DaysInMonth(int(t.year), MonthIndex(lower(t.month)))
\* the standard conversion of a 12-hour clock hour
StandardHour(h, ampm) ==
    IF ampm = "AM" THEN (IF h = 12 THEN 0 ELSE h)
    ELSE (IF h = 12 THEN 12 ELSE h + 12)

\* C7: for a title that matches the pattern, names a calendar day and has hour
\* 1..12 and minute 00..59, _parse_tweet_date returns a timestamp whose hour is
\* the standard 24-hour conversion (12 AM is 0, 12 PM is 12).
C7_TwelveHourConversion ==
    (/\ output.fn = "date"
     /\ HasTitle(input)
     /\ PatternMatches(TitleOf(input))
     /\ NamesCalendarDay(TitleOf(input))
     /\ int(TitleOf(input).hour) \in 1..12
     /\ int(TitleOf(input).minute) \in 0..59)
    => /\ ~Raised(output.r)
       /\ output.r.v.hour = StandardHour(int(TitleOf(input).hour), TitleOf(input).ampm)

\* the date of the element is malformed: no date link, no title attribute, a
\* title of another shape, an unknown month, or values out of range
Malformed(e) ==
    \/ ~HasTitle(e)
    \/ ~PatternMatches(TitleOf(e))
    \/ ~NamesCalendarDay(TitleOf(e))
    \/ int(TitleOf(e).hour) \notin 1..12
    \/ int(TitleOf(e).minute) \notin 0..59

\* C8: for every malformed date, _parse_tweet_date returns the Unix epoch and
\* does not raise.
C8_MalformedGivesEpoch ==
    (output.fn = "date" /\ Malformed(input))
    => /\ ~Raised(output.r)
       /\ output.r.v = fallback_date

\* C9: for every element with a well-formed or absent date, whatever other
\* fragments and attributes it has, _parse_tweet_element returns a record and
\* every field whose fragment or attribute is absent is '' or the empty list.
C9_ParseElementTotal ==
    (/\ output.fn = "element"
     /\ (input.date = << >> \/ input.date = SampleDate))
    => /\ ~Raised(output.r)
       /\ (input.tweet_link = << >> \/ input.tweet_link[1].href = {})
             => output.r.v.link = EmptyStr
       /\ (input.fullname = << >> \/ input.fullname[1].text = {})
             => output.r.v.author_fullname = EmptyStr
       /\ input.content = << >>
             => output.r.v.text_html = EmptyStr /\ output.r.v.text_plain = EmptyStr
       /\ input.attachments = << >>
             => output.r.v.photo_urls = << >> /\ output.r.v.gif_urls = << >>
       /\ (input.attachments = << >> \/ input.attachments[1].video = << >>)
             => output.r.v.video_url = EmptyStr /\ output.r.v.videothumb_url = EmptyStr

\* the origin of the mirror that served the page of the k-th yielded record
OriginOf(k) == Https \o served[k]

\* C10: every yielded record carries the origin of the mirror that served its
\* page, and every non-empty url of a parsed record is that origin followed by
\* the value found in the markup, whenever the consumer parsed the record.
C10_UrlsRootedAtServingMirror ==
    /\ \A k \in 1..Len(yielded) : yielded[k].instance_url = OriginOf(k)
    /\ \A k \in 1..Len(parsed) :
          ~Raised(parsed[k]) =>
             LET r == parsed[k].v
                 e == yielded[k].element
             IN /\ r.link # EmptyStr =>
                      /\ Len(e.tweet_link) > 0
                      /\ r.link = OriginOf(k) \o get(e.tweet_link[1].href)
                /\ \A i \in 1..Len(r.photo_urls) :
                      r.photo_urls[i] = OriginOf(k) \o get(e.attachments[1].images[i].href)
                /\ \A i \in 1..Len(r.gif_urls) :
                      \E j \in 1..Len(e.attachments[1].gifs) :
                         /\ e.attachments[1].gifs[j].src # {}
                         /\ r.gif_urls[i] = OriginOf(k) \o get(e.attachments[1].gifs[j].src)
                /\ r.video_url # EmptyStr =>
                      \/ r.video_url = OriginOf(k) \o get(e.attachments[1].video[1].data_url)
                      \/ /\ e.attachments[1].video[1].source # << >>
                         /\ r.video_url = OriginOf(k)
                                \o get(e.attachments[1].video[1].source[1].src)
                /\ r.videothumb_url # EmptyStr =>
                      r.videothumb_url = OriginOf(k) \o get(e.attachments[1].video[1].poster)

\* C10 witness: a record with a video was parsed, and the mirror that served it
\* is no longer the mirror of the crawl
C10_Witness ==
    \E k \in 1..Len(parsed) :
        /\ ~Raised(parsed[k])
        /\ parsed[k].v.video_url # EmptyStr
        /\ parsed[k].v.photo_urls # << >>
        /\ yielded[k].instance_url # instance_url

\* the media urls of a record, in the order _download_tweet_data requests them
MediaUrls(td) ==
    td.photo_urls \o td.gif_urls
      \o (IF td.video_url = EmptyStr THEN << >> ELSE <<td.videothumb_url>>)

\* C11: a media download answered with a non-success status skips only that
\* file: the JSON file is written, nothing is raised unless a request failed to
\* connect or the video tool could not be started, the download after a skipped
\* one is attempted, and every download answered with success is on disk.
C11_FailedDownloadSkipsOnlyThatFile ==
    output.fn = "download" =>
        LET d == output.r
            a == input.answers
            urls == MediaUrls(input.tweet_data)
            tool_missing == a.call = "oserror" /\ input.tweet_data.video_url # EmptyStr
        IN /\ HarnessDirectory \o <<"/", "tw_info_", a.t, ".json">> \in d.written
           /\ d.exc # EmptyStr =>
                 \/ tool_missing
                 \/ \E k \in 1..Len(d.attempts) : d.attempts[k].answer = "error"
           /\ d.exc = EmptyStr => Len(d.attempts) = Len(urls)
           /\ \A k \in 1..Len(d.attempts) :
                 /\ d.attempts[k].url = urls[k]
                 /\ d.attempts[k].answer = "ok" => d.attempts[k].target \in d.written
                 /\ d.attempts[k].answer = "status" =>
                       /\ d.attempts[k].target \notin d.written
                       /\ (k < Len(urls) /\ ~tool_missing) => Len(d.attempts) > k

\* C11 witness: the first photo was answered with a non-success status, and the
\* second photo, the gif and the thumbnail were downloaded
C11_Witness ==
    /\ output.fn = "download"
    /\ output.r.exc = EmptyStr
    /\ Len(output.r.attempts) = 4
    /\ output.r.attempts[1].answer = "status"
    /\ \A k \in 2..4 : /\ output.r.attempts[k].answer = "ok"
                       /\ output.r.attempts[k].target \in output.r.written

\* C12: when main has left its loop (by return or by the break), every record
\* the crawl yielded has been handled by the body of the loop, whatever
\* exceptions earlier records raised and wherever the record stands.
C12_EveryPostProcessed ==
    main_pc \in {"break", "returned"} => Len(handled) = Len(yielded)

\* C13: every record whose download returned has had the files downloaded for
\* it handed to _upload_files_to_mega by the time main turns to the next one.
C13_DownloadThenUpload ==
    \A k \in 1..Len(handled) :
        handled[k].exc = EmptyStr =>
            \E j \in 1..Len(uploaded) : uploaded[j] = handled[k].files

\* C14: when the process has ended, in either run mode and on every exit path,
\* the staging directory it made at its start does not exist.
C14_StagingDirRemoved ==
    main_pc = "exited" => (IF IS_GH_ACTION THEN GhDirName ELSE TempDirName) \notin dirs

\* the answers that are a bad-mirror symptom, and those that are a failed request
Symptoms == {"unparseable", "hls"}
FetchErrors == {"error", "status"}
\* a selection has returned since the last page request
Selected == switches # streak.switches

\* C15: the first page request follows a selection; every later page request
\* follows a selection exactly when the mirror has served three successfully
\* parsed pages since its selection or the last answer was a bad-mirror
\* symptom; no mirror serves more than three parsed pages per selection.
C15_RotationEveryThreePages ==
    /\ [](streak.pages <= 3)
    /\ [][nrequests' # nrequests =>
             IF nrequests = 0 THEN Selected
             ELSE Selected <=> (answer \in Symptoms \/ streak.pages = 3)]_vars

\* C15 witness: without any symptom, the fourth page is served by the second
\* mirror selected
C15_Witness ==
    /\ pc = "emit" /\ root = 4 /\ symptomatic = {}
    /\ streak = [switches |-> 2, pages |-> 1]

\* C16: a page request answered with a bad-mirror symptom puts the serving
\* mirror into bad_instances, yields nothing, keeps the cursor and takes the
\* page counter back (at every request the counter is the number of the page
\* asked for); the next iteration selects a mirror, and the next request asks
\* for the same cursor after a selection.
C16_SymptomRetriesSamePage ==
    /\ [](pc = "fetch" /\ ~one_page_only => pagecount = PageOf(cursor))
    /\ [][/\ (nrequests' # nrequests /\ answer' \in Symptoms) =>
                /\ serving' \in bad_instances'
                /\ yielded' = yielded
                /\ cursor' = cursor
                /\ pagecount' = pagecount - 1
                /\ pc' = "loop"
          /\ (nrequests' = nrequests /\ answer \in Symptoms) =>
                /\ yielded' = yielded
                /\ cursor' = cursor
                /\ (pc = "loop" /\ pc' # pc) => pc' = "new"
          /\ (nrequests' # nrequests /\ answer \in Symptoms) =>
                /\ Selected
                /\ requested' = requested]_vars

\* C16 witness: after a symptom on a later page a mirror was selected and the
\* same cursor is about to be requested again
C16_Witness ==
    /\ answer \in Symptoms /\ pc = "fetch" /\ Selected
    /\ cursor = requested /\ requested # EmptyStr
    /\ Len(yielded) > 0

\* C17 as stated: a page request that ends in a connection error or an error
\* status is handled like a bad-mirror symptom: the crawl goes on to its next
\* iteration with a rotation forced, and nothing is raised.
C17_FetchErrorRotates ==
    [][(nrequests' # nrequests /\ answer' \in FetchErrors) =>
          /\ pc' = "loop"
          /\ pages_until_instanceswitch' = 0
          /\ exc' = EmptyStr]_vars

\* C17 amended: a connection error or an error status is not handled like a
\* bad-mirror symptom: the exception leaves the generator with the counters as
\* they were, and no selection follows it; only a bad-mirror symptom sends the
\* crawl to its next iteration.
C17_FetchErrorDoesNotRotate ==
    [][/\ (nrequests' # nrequests /\ answer' \in FetchErrors) =>
             /\ pc' = "raised"
             /\ pages_until_instanceswitch' = pages_until_instanceswitch
             /\ pagecount' = pagecount
       /\ answer \in FetchErrors =>
             /\ switches' = switches
             /\ instance_url' = instance_url
             /\ current_instance' = current_instance
       /\ (nrequests' # nrequests /\ answer' \in Symptoms) =>
             /\ pc' = "loop"
             /\ pages_until_instanceswitch' = 0]_vars

\* C17 witness: a crawl that had gone on after a bad-mirror symptom was ended by
\* a connection error
C17_Witness ==
    pc = "raised" /\ answer = "error" /\ symptomatic # {} /\ nrequests >= 2

\* C18: every call of new but the first of the process has slept.
C18_RetrySleeps ==
    last_attempt.calls = "later" => last_attempt.slept

\* C19: with the one-page flag set, a drained crawl on a network where every
\* fetch succeeds terminates, only ever asks for the first page, and when it has
\* terminated it has yielded exactly the records of that page.
C19_OnePageOnly ==
    one_page_only =>
        /\ <>(pc = "done")
        /\ [](root <= 1 /\ cursor \in {EmptyStr, CursorTo(2)} /\ requested = EmptyStr)
        /\ [](pc = "done" => YieldedElements = ExpectedUpTo(1))

\* C19 witness: a one-page crawl ended after two attempts that showed a symptom
C19_Witness ==
    /\ one_page_only /\ pc = "done"
    /\ Cardinality(symptomatic) >= 2 /\ Len(yielded) >= 1

\* C20: no page request goes to a mirror whose hostname is in bad_instances when
\* the request is made, and the request after a bad-mirror symptom goes to
\* another mirror, after a selection.
C20_NoRequestToBadMirror ==
    [][nrequests' # nrequests =>
          /\ serving' \notin bad_instances
          /\ answer \in Symptoms => (Selected /\ serving' # serving)]_vars

\* C20 witness: after two mirrors were marked bad, a third one serves a page
C20_Witness ==
    /\ Cardinality(symptomatic) >= 2 /\ answer = "ok" /\ nrequests >= 3
    /\ serving \notin bad_instances

\* C21: when _download_tweet_data returns (the video tool, where it ran, having
\* written its file), every path of the list it returns is a file that was
\* written; the target of a skipped download is not in it.
C21_ReturnedFilesWereWritten ==
    (/\ output.fn = "download"
     /\ output.r.exc = EmptyStr
     /\ input.answers.call = "written") =>
        /\ \A k \in 1..Len(output.r.names) : output.r.names[k] \in output.r.written
        /\ \A k \in 1..Len(output.r.attempts) :
              output.r.attempts[k].answer = "status" =>
                 \A n \in 1..Len(output.r.names) :
                    output.r.names[n] # output.r.attempts[k].target

\* C22: in us_instances_only mode, whenever new returns, the hostname it
\* returns is in the parsed instance list, is not in
\* us_instances_with_age_restriction and is not in bad_instances.
C22_UsSelectionFromListOnly ==
    [][(switches' # switches /\ us_instances_only) =>
          /\ us_instances' # {}
          /\ \A list \in us_instances' : HostnameOfUrl(current_instance') \in list
          /\ HostnameOfUrl(current_instance') \notin us_instances_with_age_restriction
          /\ HostnameOfUrl(current_instance') \notin bad_instances'
          /\ instance_url' = current_instance']_vars

\* C22 witness: with a list that names an age-restricted mirror, new has
\* returned a second time, after a call that did not return
C22_Witness ==
    /\ us_instances_only /\ pc = "fetch" /\ switches >= 2
    /\ \E list \in us_instances : list \cap us_instances_with_age_restriction # {}
    /\ last_attempt.calls = "later"

====
